---- MODULE Spec2Model ----
(***************************************************************************)
(* WhisperWatch: the useAudioLevel hook (session controller, frame loop)   *)
(* as a state machine.  The canonical variant is the hook with             *)
(* permissionState that Index consumes (src/unnamed/part_002).             *)
(*                                                                         *)
(* React state is committed and re-rendered right after every handler, so  *)
(* the isListening value a closure captures is the value of the state      *)
(* variable at the moment the closure is created.  State setters are       *)
(* modelled as assignments also after unmount: the variables then hold     *)
(* the value last passed to the setter.                                    *)
(***************************************************************************)
EXTENDS Integers, Sequences, FiniteSets, TLC

\* ---------------------------------------------------------------- bounds
\* startListening() invocations explored per behaviour
MaxStarts == 2

\* levels are JavaScript numbers; they are kept as integers in thousandths
Unit == 1000

\* levels a frame's estimate may produce (normalizedVolume is in [0,100])
Levels == {0, 40 * Unit, 100 * Unit}

PermissionStates == {"prompt", "granted", "denied"}

VARIABLES
    mounted,            \* the consuming component is mounted
    hasMediaDevices,    \* navigator.mediaDevices exists (environment)
    audioLevel,         \* useState audioLevel
    isListening,        \* useState isListening
    permissionState,    \* useState permissionState
    permQuery,          \* mount effect: "pending" | "registered" | "none"
    ctxState,           \* audioContextRef.current: "none" | its state
    ctxOps,             \* suspend()/resume() requests not yet settled, in order
    analyserRef,        \* analyserRef.current   (0 = null, else id of the start)
    microphoneRef,      \* microphoneRef.current (0 = null, else id of the start)
    streamRef,          \* streamRef.current     (0 = null, else id of the start)
    animationFrameRef,  \* animationFrameRef.current (0 = null, else frame id)
    liveStreams,        \* acquired streams whose tracks are live
    connected,          \* source nodes connected to an analyser
    frames,             \* frame callbacks scheduled with requestAnimationFrame
    calls,              \* startListening() invocations suspended at an await
    started,            \* number of startListening() invocations so far
    cleanupRan,         \* the unmount cleanup has called stopListening
    frameCatches        \* updateAudioLevel wraps its frame in try/catch
                        \* (part_002:143-212); FALSE: the variant without
                        \* it (part_004:136-189)
VARIABLES
    sample,             \* the analyser buffers one frame callback reads
    thresholds,         \* Index: useState thresholds
    level,              \* NoiseMeter: the level prop
    label,              \* NoiseMeter: the category text it renders
    meterVariant,       \* which NoiseMeter source is mounted
    animatedLevel,      \* NoiseMeter: useState animatedLevel
    startLevel,         \* animatedLevel when the filter was given its target
                        \* (followed where the filter runs on its own)
    ticks,              \* smoothing steps applied since the target arrived
    baseLevel,          \* where the same steps at the base rate would be
                        \* (followed where the filter runs on its own)
    animFrame,          \* NoiseMeter's effect: its animation frame is pending,
                        \* the effect is about to re-run
    updates             \* levels the hook has delivered to NoiseMeter so far
VARIABLES
    showHelp,           \* MicrophonePermission: useState showHelp
    checkingMicrophone, \* MicrophonePermission: useState checkingMicrophone
    helpTimer,          \* MicrophonePermission: the 3 s timeout is armed
    effectDeps,         \* << permissionState, isListening >> its effect last saw
    minutes,            \* Timer: useState minutes
    seconds,            \* Timer: useState seconds
    isRunning,          \* Timer: useState isRunning
    inputMinutes,       \* Timer: useState inputMinutes (the typed text)
    interval,           \* Timer: the interval of the last effect run is armed
    runLeft,            \* Timer: 60 * minutes + seconds at the last user action,
                        \* minus the interval ticks since then
    runToasts           \* Timer: 'Timer Complete!' toasts since that action

vars == << mounted, hasMediaDevices, audioLevel, isListening, permissionState,
           permQuery, ctxState, ctxOps, analyserRef, microphoneRef, streamRef,
           animationFrameRef, liveStreams, connected, frames, calls, started,
           cleanupRan, frameCatches, sample, thresholds, level, label,
           meterVariant, animatedLevel, startLevel, ticks, baseLevel,
           animFrame, updates, showHelp, checkingMicrophone, helpTimer,
           effectDeps, minutes, seconds, isRunning, inputMinutes, interval,
           runLeft, runToasts >>

\* the state of the two widgets beside the meter
panelVars == << showHelp, checkingMicrophone, helpTimer, effectDeps >>

timerVars == << minutes, seconds, isRunning, inputMinutes, interval, runLeft,
               runToasts >>

widgetVars == << panelVars, timerVars >>

\* what the hook does not touch: the analyser's buffers and the state of the
\* components that consume the level
uiVars == << sample, thresholds, level, label, meterVariant, animatedLevel,
            startLevel, ticks, baseLevel, animFrame, updates, widgetVars >>

\* no animation frame of NoiseMeter is outstanding
NoFrame == [pending |-> FALSE, rerun |-> FALSE]

\* ---------------------------------------------------------------- helpers
\* requestAnimationFrame returns an id different from every id in use
FrameIdPool == 1..(MaxStarts + 1)

FrameIdsOf(fs) == {f.id : f \in fs}

NewFrameId(fs) ==
    CHOOSE i \in FrameIdPool :
        /\ i \notin FrameIdsOf(fs) \cup {animationFrameRef}
        /\ \A j \in FrameIdPool :
              j \notin FrameIdsOf(fs) \cup {animationFrameRef} => i <= j

\* the session is Active: listening with a stream held
Active == isListening /\ streamRef # 0

\* the hook right after the first render
SessionInit ==
    /\ mounted = TRUE
    /\ hasMediaDevices \in BOOLEAN
    /\ audioLevel = 0
    /\ isListening = FALSE
    /\ permissionState = "unknown"
    /\ permQuery \in {"pending", "none"}
    /\ ctxState = "none"
    /\ ctxOps = << >>
    /\ analyserRef = 0
    /\ microphoneRef = 0
    /\ streamRef = 0
    /\ animationFrameRef = 0
    /\ liveStreams = {}
    /\ connected = {}
    /\ frames = {}
    /\ calls = {}
    /\ started = 0
    /\ cleanupRan = FALSE
    /\ frameCatches \in BOOLEAN

\* ------------------------------------------------------------ level estimator
\* lengths of the analyser's time-domain and frequency buffers explored
TimeLen == 2
FreqLen == 2

\* byte values explored: silence (128 / 0), the smallest deviations, the extremes
Bytes == {0, 1, 128, 129, 255}

\* sampleRate / 2 of the audio context: 8 kHz and 48 kHz devices
Nyquists == {4000, 24000}

HookVariants == {"h1", "h2", "p003a", "p004", "p002", "p003b"}

RECURSIVE SeqSum(_)
SeqSum(s) == IF s = << >> THEN 0 ELSE Head(s) + SeqSum(Tail(s))

RECURSIVE SeqMax(_)
SeqMax(s) ==
    IF s = << >> THEN 0
    ELSE LET m == SeqMax(Tail(s)) IN IF Head(s) > m THEN Head(s) ELSE m

RECURSIVE SqrtSearch(_, _, _)
SqrtSearch(n, lo, hi) ==
    IF lo = hi THEN lo
    ELSE LET mid == (lo + hi + 1) \div 2
         IN  IF mid * mid <= n THEN SqrtSearch(n, mid, hi)
             ELSE SqrtSearch(n, lo, mid - 1)

\* Math.sqrt on a non-negative integer, rounded down
ISqrt(n) == SqrtSearch(n, 0, 46340)

\* variant: the estimate is not limited from above
Clamp_noCeiling(x) == IF x < 0 THEN 0 ELSE x

\* Math.min(100, Math.max(0, x)) on thousandths
Clamp(x) == IF x < 0 THEN 0 ELSE IF x > 100 * Unit THEN 100 * Unit ELSE x

\* variant: the bytes are not centred on 128
Rms_unsigned(time) ==
    ISqrt((SeqSum([i \in 1..Len(time) |-> time[i] * time[i]])
             * 10000) \div Len(time))

\* rms of the time-domain buffer, in hundredths
Rms(time) ==
    ISqrt((SeqSum([i \in 1..Len(time) |-> (time[i] - 128) * (time[i] - 128)])
             * 10000) \div Len(time))

\* twice the weight of frequency bin i (0-based i - 1) of n bins: speech2 for
\* a bin strictly inside 300 Hz .. 3000 Hz, 2 (weight 1.0) otherwise
Weight2(i, n, nyquist, speech2) ==
    IF (i - 1) * nyquist > 300 * n /\ (i - 1) * nyquist < 3000 * n
    THEN speech2 ELSE 2

\* weightedSum / totalEnergy, in hundredths
FreqAverage(freq, nyquist, speech2) ==
    LET n == Len(freq)
        weightedSum == SeqSum([i \in 1..n |-> freq[i] * Weight2(i, n, nyquist, speech2)])
        totalEnergy == SeqSum([i \in 1..n |-> Weight2(i, n, nyquist, speech2)])
    IN  IF totalEnergy > 0 THEN (weightedSum * 100) \div totalEnergy ELSE 0

\* the constants of each variant of updateAudioLevel: twice the speech weight,
\* the weights of rms, frequency average and peak in tenths, the factor
\* num / den applied before clamping, and whether quiet levels are boosted
Params_p003a ==
    [speech2 |-> 2, wRms |-> 7, wAvg |-> 3, wPeak |-> 0, num |-> 200, den |-> 1,
     boost |-> FALSE]
Params_p004 ==
    [speech2 |-> 2, wRms |-> 5, wAvg |-> 3, wPeak |-> 2, num |-> 300, den |-> 1,
     boost |-> FALSE]
Params_p002 ==
    [speech2 |-> 4, wRms |-> 6, wAvg |-> 3, wPeak |-> 1, num |-> 400, den |-> 128,
     boost |-> FALSE]
Params_p003b ==
    [speech2 |-> 5, wRms |-> 4, wAvg |-> 5, wPeak |-> 1, num |-> 500, den |-> 128,
     boost |-> TRUE]

\* normalizedVolume * 1.5 for 0 < normalizedVolume < 5
Boost(v) == IF v < 5 * Unit /\ v > 0 THEN (v * 3) \div 2 ELSE v

\* combinedVolume of the rms / frequency variants, in thousandths
CombinedVolume(smp, p) ==
    Rms(smp.time) * p.wRms
    + FreqAverage(smp.freq, smp.nyquist, p.speech2) * p.wAvg
    + SeqMax(smp.freq) * 100 * p.wPeak

\* the level the rms / frequency variants pass to setAudioLevel, in thousandths
Combined(smp, p) ==
    LET combinedVolume == CombinedVolume(smp, p)
        normalizedVolume == Clamp((combinedVolume * p.num) \div p.den)
    IN  IF p.boost THEN Boost(normalizedVolume) ELSE normalizedVolume

\* Math.round((average / 255) * 100), clamped: the first hook
Estimate_h1(smp) ==
    LET n == Len(smp.freq)
        sum == SeqSum(smp.freq)
    IN  Clamp(((200 * sum + 255 * n) \div (2 * 255 * n)) * Unit)

\* Math.round(Math.sqrt(average / 255) * 100) over the bins after the first,
\* clamped: the second hook
Estimate_h2(smp) ==
    LET values == Tail(smp.freq)
        n == Len(values)
        sum == SeqSum(values)
        twice == IF n > 0 THEN ISqrt((40000 * sum) \div (255 * n)) ELSE 0
    IN  Clamp(((twice + 1) \div 2) * Unit)

\* the argument of setAudioLevel in updateAudioLevel
Estimate(smp) ==
    CASE smp.variant = "h1" -> Estimate_h1(smp)
      [] smp.variant = "h2" -> Estimate_h2(smp)
      [] smp.variant = "p003a" -> Combined(smp, Params_p003a)
      [] smp.variant = "p004" -> Combined(smp, Params_p004)
      [] smp.variant = "p002" -> Combined(smp, Params_p002)
      [] smp.variant = "p003b" -> Combined(smp, Params_p003b)

SampleFrames ==
    [variant : HookVariants, time : [1..TimeLen -> Bytes],
     freq : [1..FreqLen -> Bytes], nyquist : Nyquists]

\* buffers of a silent room
SilentSample ==
    [variant |-> "p002", time |-> [i \in 1..TimeLen |-> 128],
     freq |-> [i \in 1..FreqLen |-> 0], nyquist |-> 24000]

\* --------------------------------------------------------------- Index state
DEFAULT_THRESHOLDS == [moderate |-> 30, loud |-> 60, excessive |-> 85]

\* MicrophonePermission as it mounts
PanelInit ==
    /\ showHelp = FALSE
    /\ checkingMicrophone = FALSE
    /\ helpTimer = FALSE
    /\ effectDeps = << "unknown", FALSE >>

\* Timer as it mounts
TimerInit ==
    /\ minutes = 5
    /\ seconds = 0
    /\ isRunning = FALSE
    /\ inputMinutes = << "5" >>
    /\ interval = FALSE
    /\ runLeft = 300
    /\ runToasts = 0

WidgetsIdle == PanelInit /\ TimerInit

\* the components before anything is rendered or measured
DisplayInit ==
    /\ sample = SilentSample
    /\ thresholds = DEFAULT_THRESHOLDS
    /\ level = 0
    /\ label = ""
    /\ meterVariant = "A"
    /\ animatedLevel = 0
    /\ startLevel = 0
    /\ ticks = 0
    /\ baseLevel = 0
    /\ animFrame = NoFrame
    /\ updates = 0
    /\ WidgetsIdle

Init == SessionInit /\ DisplayInit

\* ------------------------------------------------- mount effect (permission)
\* variant: the mount effect starts an acquisition by itself
PermissionQueryDone_autoStart(s) ==
    /\ permQuery = "pending"
    /\ permQuery' = "registered"
    /\ permissionState' = s
    /\ calls' = calls \cup {[id |-> started + 1, cap |-> isListening,
                              phase |-> "gum", retry |-> FALSE,
                              idle |-> FALSE, stopped |-> FALSE]}
    /\ UNCHANGED << mounted, hasMediaDevices, audioLevel, isListening, ctxState,
                    ctxOps, analyserRef, microphoneRef, streamRef,
                    animationFrameRef, liveStreams, connected, frames,
                    started, cleanupRan, frameCatches >>
    /\ UNCHANGED uiVars

\* navigator.permissions.query resolves: the state is stored and the change
\* listener is registered
PermissionQueryDone(s) ==
    /\ permQuery = "pending"
    /\ permQuery' = "registered"
    /\ permissionState' = s
    /\ UNCHANGED << mounted, hasMediaDevices, audioLevel, isListening, ctxState,
                    ctxOps, analyserRef, microphoneRef, streamRef,
                    animationFrameRef, liveStreams, connected, frames, calls,
                    started, cleanupRan, frameCatches >>
    /\ UNCHANGED uiVars

\* the 'change' listener (never removed) stores the new platform state
PermissionChange(s) ==
    /\ permQuery = "registered"
    /\ s # permissionState
    /\ permissionState' = s
    /\ UNCHANGED << mounted, hasMediaDevices, audioLevel, isListening, permQuery,
                    ctxState, ctxOps, analyserRef, microphoneRef, streamRef,
                    animationFrameRef, liveStreams, connected, frames, calls,
                    started, cleanupRan, frameCatches >>
    /\ UNCHANGED uiVars

\* ------------------------------------------------------------ startListening
\* variant: a start is refused once permission was denied
CanStart_notDenied == mounted /\ permissionState # "denied"

\* startListening tests nothing of the session before it acquires: the only
\* condition for a call is that the UI offering it is mounted
CanStart == mounted

\* a startListening() invocation suspended at an await: cap is the isListening
\* its closure (and the updateAudioLevel it creates) captured; retry records
\* that it was issued from the Denied state, idle that it was issued with
\* nothing listening, held, scheduled or pending, stopped that
\* stopListening() ran while it was suspended
NewCall(id, ph) ==
    [id |-> id, cap |-> isListening, phase |-> ph,
     retry |-> (permissionState = "denied" /\ ~isListening),
     idle |-> (~isListening /\ streamRef = 0 /\ frames = {} /\ calls = {}),
     stopped |-> FALSE]

\* the part of startListening up to its first await, on the hook's state
StartCall ==
    /\ CanStart
    /\ started < MaxStarts
    /\ started' = started + 1
    /\ IF ~hasMediaDevices
       THEN \* toast and return
            UNCHANGED << ctxState, ctxOps, calls >>
       ELSE \E created \in {"running", "suspended"} :
              LET st == IF ctxState = "none" THEN created ELSE ctxState
                  id == started + 1
              IN  /\ ctxState' = st
                  /\ IF st = "suspended"
                     THEN /\ ctxOps' = Append(ctxOps, [op |-> "resume", call |-> id])
                          /\ calls' = calls \cup
                               {NewCall(id, "resume")}
                     ELSE /\ ctxOps' = ctxOps
                          /\ calls' = calls \cup
                               {NewCall(id, "gum")}
    /\ UNCHANGED << mounted, hasMediaDevices, audioLevel, isListening,
                    permissionState, permQuery, analyserRef, microphoneRef,
                    streamRef, animationFrameRef, liveStreams, connected, frames,
                    cleanupRan, frameCatches >>

\* startListening() called with nothing else rendering
StartListening ==
    /\ StartCall
    /\ UNCHANGED uiVars

\* the oldest suspend()/resume() request of the audio context settles; a
\* settled resume() lets its startListening go on to getUserMedia
ContextSettle ==
    /\ ctxOps # << >>
    /\ LET o == Head(ctxOps)
       IN  /\ ctxOps' = Tail(ctxOps)
           /\ IF o.op = "suspend"
              THEN /\ ctxState' = "suspended"
                   /\ calls' = calls
              ELSE /\ ctxState' = "running"
                   /\ calls' = {IF c.id = o.call
                                THEN [c EXCEPT !.phase = "gum"] ELSE c : c \in calls}
    /\ UNCHANGED << mounted, hasMediaDevices, audioLevel, isListening,
                    permissionState, permQuery, analyserRef, microphoneRef,
                    streamRef, animationFrameRef, liveStreams, connected, frames,
                    started, cleanupRan, frameCatches >>
    /\ UNCHANGED uiVars

\* variant: the granted startListening schedules no frame callback
FirstFrame_none(c) == {}

\* the frame callback the granted startListening c schedules
FirstFrame(c) == {[id |-> NewFrameId(frames), cap |-> c.cap, preStop |-> FALSE]}

\* variant: an analyser that is already installed is kept
Grant_reuseAnalyser(c) ==
    /\ c.phase = "gum"
    /\ calls' = calls \ {c}
    /\ permissionState' = "granted"
    /\ streamRef' = c.id
    /\ liveStreams' = liveStreams \cup {c.id}
    /\ analyserRef' = IF analyserRef # 0 THEN analyserRef ELSE c.id
    /\ microphoneRef' = c.id
    /\ connected' = connected \cup {c.id}
    /\ isListening' = TRUE
    /\ frames' = frames \cup FirstFrame(c)
    /\ animationFrameRef' = NewFrameId(frames)
    /\ UNCHANGED << mounted, hasMediaDevices, audioLevel, permQuery, ctxState,
                    ctxOps, started, cleanupRan, frameCatches >>
    /\ UNCHANGED uiVars

\* getUserMedia resolves with a stream that has an audio track: the rest of
\* startListening runs in one piece
Grant(c) ==
    /\ c.phase = "gum"
    /\ calls' = calls \ {c}
    /\ permissionState' = "granted"
    /\ streamRef' = c.id
    /\ liveStreams' = liveStreams \cup {c.id}
    /\ analyserRef' = c.id
    /\ microphoneRef' = c.id
    /\ connected' = connected \cup {c.id}
    /\ isListening' = TRUE
    /\ frames' = frames \cup FirstFrame(c)
    /\ animationFrameRef' = NewFrameId(frames)
    /\ UNCHANGED << mounted, hasMediaDevices, audioLevel, permQuery, ctxState,
                    ctxOps, started, cleanupRan, frameCatches >>
    /\ UNCHANGED uiVars

\* variant: the catch block also drops the installed analyser
Fail_dropAnalyser(c) ==
    /\ calls' = calls \ {c}
    /\ permissionState' = "denied"
    /\ analyserRef' = 0
    /\ UNCHANGED << mounted, hasMediaDevices, audioLevel, isListening, permQuery,
                    ctxState, ctxOps, microphoneRef, streamRef,
                    animationFrameRef, liveStreams, connected, frames, started,
                    cleanupRan, frameCatches >>
    /\ UNCHANGED uiVars

\* the catch block of startListening
Fail(c) ==
    /\ calls' = calls \ {c}
    /\ permissionState' = "denied"
    /\ UNCHANGED << mounted, hasMediaDevices, audioLevel, isListening, permQuery,
                    ctxState, ctxOps, analyserRef, microphoneRef, streamRef,
                    animationFrameRef, liveStreams, connected, frames, started,
                    cleanupRan, frameCatches >>
    /\ UNCHANGED uiVars

\* getUserMedia rejects (permission denied, no device, ...)
Reject(c) ==
    /\ c.phase = "gum"
    /\ Fail(c)

\* getUserMedia resolves with a stream without audio tracks: startListening
\* throws before it stores anything
GrantNoTracks(c) ==
    /\ c.phase = "gum"
    /\ Fail(c)

\* ------------------------------------------------------------- frame callback
\* what the callback leaves scheduled: it re-schedules itself only if the
\* isListening it captured is true
Reschedule(f, rest) ==
    IF f.cap
    THEN rest \cup {[id |-> NewFrameId(rest), cap |-> f.cap, preStop |-> FALSE]}
    ELSE rest

\* one scheduled callback updateAudioLevel runs; lvl is the level its frame
\* yields, ok is FALSE when reading or estimating throws
Frame(f, lvl, ok) ==
    /\ f \in frames
    /\ LET rest == frames \ {f}
       IN  IF analyserRef = 0
           THEN \* "No analyzer found in update loop": return
                /\ frames' = rest
                /\ UNCHANGED << audioLevel, animationFrameRef >>
           ELSE IF ~ok /\ ~frameCatches
           THEN \* the exception leaves the callback before it re-schedules
                /\ frames' = rest
                /\ UNCHANGED << audioLevel, animationFrameRef >>
           ELSE /\ audioLevel' = IF ok THEN lvl ELSE audioLevel
                /\ frames' = Reschedule(f, rest)
                /\ animationFrameRef' =
                       IF frames' \ rest # {}
                       THEN (CHOOSE g \in frames' \ rest : TRUE).id
                       ELSE animationFrameRef
    /\ UNCHANGED << mounted, hasMediaDevices, isListening, permissionState,
                    permQuery, ctxState, ctxOps, analyserRef, microphoneRef,
                    streamRef, liveStreams, connected, calls, started,
                    cleanupRan, frameCatches >>
    /\ UNCHANGED uiVars

Tick(f) == \E lvl \in Levels, ok \in BOOLEAN : Frame(f, lvl, ok)

\* -------------------------------------------------------------- stopListening
\* cancelAnimationFrame(animationFrameRef.current): the callbacks that stay
\* scheduled (preStop records that they were scheduled before a stop)
CancelledFrames ==
    {[f EXCEPT !.preStop = TRUE] : f \in {g \in frames : g.id # animationFrameRef}}

\* variant: the tracks of the held stream are left running
StoppedTracks_none == liveStreams

\* streamRef.current.getTracks().forEach(track => track.stop())
StoppedTracks == liveStreams \ {streamRef}

\* microphoneRef.current.disconnect()
Disconnected == connected \ {microphoneRef}

\* audioContextRef.current.suspend(); a suspend() behind an unsettled
\* suspend() changes nothing and is not queued again
Suspended ==
    IF ctxState = "none" THEN ctxOps
    ELSE IF ctxOps # << >> /\ ctxOps[Len(ctxOps)].op = "suspend" THEN ctxOps
    ELSE Append(ctxOps, [op |-> "suspend", call |-> 0])

\* variant: stopListening does not reset the level
StopBody_keepLevel ==
    /\ frames' = CancelledFrames
    /\ animationFrameRef' = 0
    /\ connected' = Disconnected
    /\ liveStreams' = StoppedTracks
    /\ streamRef' = 0
    /\ ctxOps' = Suspended
    /\ analyserRef' = 0
    /\ microphoneRef' = 0
    /\ isListening' = FALSE
    /\ audioLevel' = audioLevel

\* the body of stopListening.  When isListening was true the re-render runs
\* the cleanup of the unmount effect, which calls stopListening once more on
\* the state this body leaves: that second run changes nothing.
StopBody ==
    /\ frames' = CancelledFrames
    /\ animationFrameRef' = 0
    /\ connected' = Disconnected
    /\ liveStreams' = StoppedTracks
    /\ streamRef' = 0
    /\ ctxOps' = Suspended
    /\ analyserRef' = 0
    /\ microphoneRef' = 0
    /\ isListening' = FALSE
    /\ audioLevel' = 0

\* stopListening() on the hook's state
StopCall ==
    /\ mounted
    /\ StopBody
    /\ calls' = {[c EXCEPT !.stopped = TRUE] : c \in calls}
    /\ UNCHANGED << mounted, hasMediaDevices, permissionState, permQuery,
                    ctxState, started, cleanupRan, frameCatches >>

StopListening ==
    /\ StopCall
    /\ UNCHANGED uiVars

\* variant: the cleanup never calls stopListening
CleanupStops_never == FALSE

\* the test of the unmount effect's cleanup: isListening of the last render
CleanupStops == isListening

\* the consumer unmounts: the cleanup of the unmount effect
Unmount ==
    /\ mounted
    /\ mounted' = FALSE
    /\ cleanupRan' = CleanupStops
    /\ IF CleanupStops
       THEN StopBody
       ELSE UNCHANGED << frames, animationFrameRef, connected, liveStreams,
                         streamRef, ctxOps, analyserRef, microphoneRef,
                         isListening, audioLevel >>
    /\ UNCHANGED << hasMediaDevices, permissionState, permQuery, ctxState,
                    calls, started, frameCatches >>
    /\ UNCHANGED uiVars

Next ==
    \/ \E s \in PermissionStates : PermissionQueryDone(s)
    \/ \E s \in PermissionStates : PermissionChange(s)
    \/ StartListening
    \/ ContextSettle
    \/ \E c \in calls : Grant(c)
    \/ \E c \in calls : Reject(c)
    \/ \E c \in calls : GrantNoTracks(c)
    \/ \E f \in frames : Tick(f)
    \/ StopListening
    \/ Unmount

Spec == Init /\ [][Next]_vars

TypeOK ==
    /\ mounted \in BOOLEAN
    /\ audioLevel \in Levels
    /\ isListening \in BOOLEAN
    /\ permissionState \in PermissionStates \cup {"unknown"}
    /\ ctxState \in {"none", "running", "suspended"}
    /\ streamRef \in 0..MaxStarts
    /\ animationFrameRef \in {0} \cup FrameIdPool
    /\ started \in 0..MaxStarts

\* ------------------------------------------------ the estimator on its own
hookVars == << mounted, hasMediaDevices, audioLevel, isListening,
               permissionState, permQuery, ctxState, ctxOps, analyserRef,
               microphoneRef, streamRef, animationFrameRef, liveStreams,
               connected, frames, calls, started, cleanupRan, frameCatches >>

\* a fixed environment for the hook while a pure part is explored
SessionFixed ==
    /\ SessionInit
    /\ hasMediaDevices
    /\ permQuery = "none"
    /\ frameCatches

EstimatorInit ==
    /\ SessionFixed
    /\ sample \in SampleFrames
    /\ thresholds = DEFAULT_THRESHOLDS
    /\ level = 0
    /\ label = ""
    /\ meterVariant = "A"
    /\ animatedLevel = 0
    /\ startLevel = 0
    /\ ticks = 0
    /\ baseLevel = 0
    /\ animFrame = NoFrame
    /\ updates = 0
    /\ WidgetsIdle

\* the try block of updateAudioLevel on the buffers the analyser filled
EstimateFrame ==
    /\ audioLevel' = Estimate(sample)
    /\ UNCHANGED << mounted, hasMediaDevices, isListening, permissionState,
                    permQuery, ctxState, ctxOps, analyserRef, microphoneRef,
                    streamRef, animationFrameRef, liveStreams, connected,
                    frames, calls, started, cleanupRan, frameCatches >>
    /\ UNCHANGED uiVars

EstimatorNext == EstimateFrame

EstimatorSpec == EstimatorInit /\ [][EstimatorNext]_vars

\* ------------------------------------- the quiet-boost variant, frame by frame
\* bytes of a quiet room: samples around the 128 midpoint, weak spectrum bins
QuietTime == {128, 129, 130}

QuietFreq == {0, 1, 2}

QuietFrames ==
    [variant : {"p003b"}, time : [1..TimeLen -> QuietTime],
     freq : [1..FreqLen -> QuietFreq], nyquist : Nyquists]

BoostInit ==
    /\ SessionFixed
    /\ sample \in QuietFrames
    /\ thresholds = DEFAULT_THRESHOLDS
    /\ level = 0
    /\ label = ""
    /\ meterVariant = "A"
    /\ animatedLevel = 0
    /\ startLevel = 0
    /\ ticks = 0
    /\ baseLevel = 0
    /\ animFrame = NoFrame
    /\ updates = 0
    /\ WidgetsIdle

\* one frame callback: the analyser fills the buffers with smp and the try
\* block of updateAudioLevel sets the level
updateAudioLevel(smp) ==
    /\ sample' = smp
    /\ audioLevel' = Estimate(smp)
    /\ UNCHANGED << mounted, hasMediaDevices, isListening, permissionState,
                    permQuery, ctxState, ctxOps, analyserRef, microphoneRef,
                    streamRef, animationFrameRef, liveStreams, connected,
                    frames, calls, started, cleanupRan, frameCatches >>
    /\ UNCHANGED << thresholds, level, label, meterVariant, animatedLevel,
                    startLevel, ticks, baseLevel, animFrame, updates >>
    /\ UNCHANGED widgetVars

BoostNext == \E smp \in QuietFrames : updateAudioLevel(smp)

BoostSpec == BoostInit /\ [][BoostNext]_vars

\* ------------------------------------------------------ threshold classifier
Categories == {"Silent", "Quiet", "Moderate", "Very Noisy", "Too Loud!"}

\* variant: the floor of 5 belongs to Quiet
FloorLabel_closed(lvl) == IF lvl >= 5 * Unit THEN "Quiet" ELSE "Silent"

\* the last two returns of getNoiseLabel: if (level > 5) 'Quiet', else 'Silent'
FloorLabel(lvl) == IF lvl > 5 * Unit THEN "Quiet" ELSE "Silent"

\* variant: the test against thresholds.loud is missing
getNoiseLabel_noLoud(lvl, th) ==
    IF lvl >= th.excessive * Unit THEN "Too Loud!"
    ELSE IF lvl >= th.moderate * Unit THEN "Moderate"
    ELSE FloorLabel(lvl)

\* getNoiseLabel of NoiseMeter (the same in its three sources); lvl is in
\* thousandths, the thresholds are whole numbers
getNoiseLabel(lvl, th) ==
    IF lvl >= th.excessive * Unit THEN "Too Loud!"
    ELSE IF lvl >= th.loud * Unit THEN "Very Noisy"
    ELSE IF lvl >= th.moderate * Unit THEN "Moderate"
    ELSE FloorLabel(lvl)

\* threshold values explored by the classifier on its own
ThresholdGrid == {0, 3, 5, 10, 30, 40, 60, 70, 85, 95, 100}

\* the threshold sets NoiseMeter is specified for
ThresholdSets ==
    {th \in [moderate : ThresholdGrid, loud : ThresholdGrid,
              excessive : ThresholdGrid] :
        th.moderate < th.loud /\ th.loud < th.excessive}

\* levels explored by the classifier: every whole level and a tenth on each
\* side of it
LevelGrid ==
    {l \in {k * Unit + d : k \in 0..100, d \in {0 - 100, 0, 100}} :
        l >= 0 /\ l <= 100 * Unit}

ClassifyInit ==
    /\ SessionFixed
    /\ sample = SilentSample
    /\ thresholds \in ThresholdSets
    /\ level \in LevelGrid
    /\ label = ""
    /\ meterVariant = "A"
    /\ animatedLevel = 0
    /\ startLevel = 0
    /\ ticks = 0
    /\ baseLevel = 0
    /\ animFrame = NoFrame
    /\ updates = 0
    /\ WidgetsIdle

\* variant: the category is computed from the animated level
NoiseMeterRender_animated ==
    /\ label' = getNoiseLabel(animatedLevel, thresholds)
    /\ UNCHANGED hookVars
    /\ UNCHANGED widgetVars
    /\ UNCHANGED << sample, thresholds, level, meterVariant, animatedLevel,
                    startLevel, ticks, baseLevel, animFrame, updates >>

\* NoiseMeter renders the category of its level prop
NoiseMeterRender ==
    /\ label' = getNoiseLabel(level, thresholds)
    /\ UNCHANGED hookVars
    /\ UNCHANGED widgetVars
    /\ UNCHANGED << sample, thresholds, level, meterVariant, animatedLevel,
                    startLevel, ticks, baseLevel, animFrame, updates >>

ClassifyNext == NoiseMeterRender

ClassifySpec == ClassifyInit /\ [][ClassifyNext]_vars

\* ---------------------------------------------------------- threshold sliders
\* min and max of the three sliders of ThresholdControls (step 1)
SliderRange(key) ==
    CASE key = "moderate" -> 10..40
      [] key = "loud" -> 40..70
      [] key = "excessive" -> 70..95

\* levels shown while the sliders are moved
SliderLevels == {0, 40 * Unit}

SliderInit ==
    /\ SessionFixed
    /\ sample = SilentSample
    /\ thresholds = DEFAULT_THRESHOLDS
    /\ level \in SliderLevels
    /\ label = getNoiseLabel(level, DEFAULT_THRESHOLDS)
    /\ meterVariant = "A"
    /\ animatedLevel = 0
    /\ startLevel = 0
    /\ ticks = 0
    /\ baseLevel = 0
    /\ animFrame = NoFrame
    /\ updates = 0
    /\ WidgetsIdle

\* onValueChange of a slider: handleThresholdChange(key, value) stores the
\* value under its key, and NoiseMeter renders with the new set
handleThresholdChange(key, value) ==
    /\ value \in SliderRange(key)
    /\ thresholds' = [thresholds EXCEPT ![key] = value]
    /\ label' = getNoiseLabel(level, thresholds')
    /\ UNCHANGED hookVars
    /\ UNCHANGED widgetVars
    /\ UNCHANGED << sample, level, meterVariant, animatedLevel, startLevel,
                    ticks, baseLevel, animFrame, updates >>

\* "Reset to Default"
resetThresholds ==
    /\ thresholds' = DEFAULT_THRESHOLDS
    /\ label' = getNoiseLabel(level, thresholds')
    /\ UNCHANGED hookVars
    /\ UNCHANGED widgetVars
    /\ UNCHANGED << sample, level, meterVariant, animatedLevel, startLevel,
                    ticks, baseLevel, animFrame, updates >>

SliderNext ==
    \/ \E key \in {"moderate", "loud", "excessive"} :
          \E value \in SliderRange(key) : handleThresholdChange(key, value)
    \/ resetThresholds

SliderSpec == SliderInit /\ [][SliderNext]_vars

\* ----------------------------------------------------------- smoothing filter
\* largest distance from the target a smoothing step is applied to
MaxDelta == 10000000

\* smoothing steps explored for one target
MaxTicks == 16

MeterVariants == {"A", "B", "C"}

Abs(x) == IF x < 0 THEN 0 - x ELSE x

\* variant: no snap near the target
SmoothStep_noSnap(prev, lvl, rate20) ==
    prev + ((lvl - prev) * rate20) \div 20

\* prev + (level - prev) * rate20 / 20 unless prev is within 0.5 of level;
\* the product speed * significance is rate20 / 20, the division rounds down
\* to a thousandth
SmoothStep(prev, lvl, rate20) ==
    IF Abs(prev - lvl) < Unit \div 2 THEN lvl
    ELSE prev + ((lvl - prev) * rate20) \div 20

\* NoiseMeter.tsx:19-38: speed 0.9, significance 10.0 beyond 10, else 5.0
animateToNewLevel_A(prev, lvl) ==
    SmoothStep(prev, lvl, IF Abs(prev - lvl) > 10 * Unit THEN 180 ELSE 90)

\* NoiseMeter.tsx:255-267: speed 0.5 upwards and 0.2 downwards, significance
\* 1.5 beyond 15, else 1
animateToNewLevel_B(prev, lvl) ==
    SmoothStep(prev, lvl,
               IF lvl > prev
               THEN (IF Abs(prev - lvl) > 15 * Unit THEN 15 ELSE 10)
               ELSE (IF Abs(prev - lvl) > 15 * Unit THEN 6 ELSE 4))

\* ThresholdControls.tsx:100-113: speed 0.5, significance 3.0 beyond 20,
\* else 1.5
animateToNewLevel_C(prev, lvl) ==
    SmoothStep(prev, lvl, IF Abs(prev - lvl) > 20 * Unit THEN 30 ELSE 15)

\* the updater animateToNewLevel passes to setAnimatedLevel
animateToNewLevel(v, prev, lvl) ==
    CASE v = "A" -> animateToNewLevel_A(prev, lvl)
      [] v = "B" -> animateToNewLevel_B(prev, lvl)
      [] v = "C" -> animateToNewLevel_C(prev, lvl)

\* levels the meter starts from and is given as target
SmoothGrid ==
    {0, 3 * Unit, 17 * Unit, 30 * Unit, 50 * Unit, 85 * Unit, 100 * Unit}

\* the jump size beyond which significance takes its larger value
JumpThreshold(v) ==
    CASE v = "A" -> 10 * Unit
      [] v = "B" -> 15 * Unit
      [] v = "C" -> 20 * Unit

\* speed * significance, in twentieths, with the smaller significance only
BaseRate20(v, prev, lvl) ==
    CASE v = "A" -> 90
      [] v = "B" -> (IF lvl > prev THEN 10 ELSE 4)
      [] v = "C" -> 15

\* the step as it would be without the larger significance for big jumps
animateAtBaseRate(v, prev, lvl) == SmoothStep(prev, lvl, BaseRate20(v, prev, lvl))

SmoothInit ==
    /\ SessionFixed
    /\ sample = SilentSample
    /\ thresholds = DEFAULT_THRESHOLDS
    /\ label = ""
    /\ meterVariant \in MeterVariants
    /\ level \in SmoothGrid
    /\ animatedLevel \in SmoothGrid
    /\ startLevel = animatedLevel
    /\ ticks = 0
    /\ baseLevel = animatedLevel
    /\ animFrame = NoFrame
    /\ updates = 0
    /\ WidgetsIdle

\* one animation frame of NoiseMeter: setAnimatedLevel(prev => ...) with the
\* level prop unchanged
AnimationStep ==
    /\ ticks < MaxTicks
    /\ Abs(animatedLevel - level) <= MaxDelta
    /\ animatedLevel' = animateToNewLevel(meterVariant, animatedLevel, level)
    /\ ticks' = ticks + 1
    /\ baseLevel' = animateAtBaseRate(meterVariant, baseLevel, level)
    /\ UNCHANGED hookVars
    /\ UNCHANGED widgetVars
    /\ UNCHANGED << sample, thresholds, level, label, meterVariant, startLevel,
                    animFrame, updates >>

SmoothNext == AnimationStep

SmoothSpec == SmoothInit /\ [][SmoothNext]_vars

\* ------------------------------------------------- NoiseMeter under the hook
\* Index passes audioLevel to NoiseMeter as its level prop.  The session is
\* reduced to isListening and audioLevel; the meter's effect is kept whole.

\* levels the hook delivers to NoiseMeter in one behaviour
MaxUpdates == 2

\* whether the effect run re-renders and runs again: only the source with
\* lastUpdateTime among its dependencies (NoiseMeter.tsx:248-271) stores
\* Date.now() in the effect, and re-runs when the clock has moved
RerunChoices(v) == IF v = "B" THEN BOOLEAN ELSE {FALSE}

\* NoiseMeter renders with level prop l: when the prop changed, the effect
\* cancels its pending animation frame and requests a new one
NoiseMeterProps(l) ==
    /\ level' = l
    /\ label' = getNoiseLabel(l, thresholds)
    /\ animatedLevel' = animatedLevel
    /\ IF l # level
       THEN /\ \E b \in RerunChoices(meterVariant) :
                 animFrame' = [pending |-> TRUE, rerun |-> b]
            /\ ticks' = 0
       ELSE UNCHANGED << animFrame, ticks >>
    /\ UNCHANGED << sample, thresholds, meterVariant, startLevel, baseLevel >>
    /\ UNCHANGED widgetVars

DisplayInitMounted ==
    /\ SessionFixed
    /\ sample = SilentSample
    /\ thresholds = DEFAULT_THRESHOLDS
    /\ level = 0
    /\ label = getNoiseLabel(0, DEFAULT_THRESHOLDS)
    /\ meterVariant \in MeterVariants
    /\ animatedLevel = 0
    /\ startLevel = 0
    /\ ticks = 0
    /\ baseLevel = 0
    /\ animFrame = [pending |-> TRUE, rerun |-> FALSE]
    /\ updates = 0
    /\ WidgetsIdle

\* a granted startListening: setIsListening(true)
StartMonitoring ==
    /\ ~isListening
    /\ isListening' = TRUE
    /\ UNCHANGED << mounted, hasMediaDevices, audioLevel, permissionState,
                    permQuery, ctxState, ctxOps, analyserRef, microphoneRef,
                    streamRef, animationFrameRef, liveStreams, connected,
                    frames, calls, started, cleanupRan, frameCatches >>
    /\ UNCHANGED uiVars

\* a frame callback of the hook: setAudioLevel(l), and the render it causes
LevelUpdate(l) ==
    /\ isListening
    /\ updates < MaxUpdates
    /\ updates' = updates + 1
    /\ audioLevel' = l
    /\ NoiseMeterProps(l)
    /\ UNCHANGED << mounted, hasMediaDevices, isListening, permissionState,
                    permQuery, ctxState, ctxOps, analyserRef, microphoneRef,
                    streamRef, animationFrameRef, liveStreams, connected,
                    frames, calls, started, cleanupRan, frameCatches >>

\* handleStopMonitoring: stopListening(), and the render it causes
StopMonitoring ==
    /\ isListening
    /\ StopBody
    /\ NoiseMeterProps(0)
    /\ updates' = updates
    /\ UNCHANGED << mounted, hasMediaDevices, permissionState, permQuery,
                    ctxState, calls, started, cleanupRan, frameCatches >>

\* the effect runs again after setLastUpdateTime changed its dependency
EffectRerun ==
    /\ animFrame.rerun
    /\ \E b \in RerunChoices(meterVariant) :
          animFrame' = [pending |-> TRUE, rerun |-> b]
    /\ UNCHANGED hookVars
    /\ UNCHANGED widgetVars
    /\ UNCHANGED << sample, thresholds, level, label, meterVariant,
                    animatedLevel, startLevel, ticks, baseLevel, updates >>

\* the pending animation frame of NoiseMeter fires
MeterFrame ==
    /\ animFrame.pending
    /\ ticks < MaxTicks
    /\ Abs(animatedLevel - level) <= MaxDelta
    /\ animatedLevel' = animateToNewLevel(meterVariant, animatedLevel, level)
    /\ ticks' = ticks + 1
    /\ animFrame' = [animFrame EXCEPT !.pending = FALSE]
    /\ UNCHANGED hookVars
    /\ UNCHANGED widgetVars
    /\ UNCHANGED << sample, thresholds, level, label, meterVariant, startLevel,
                    baseLevel, updates >>

DisplayNext ==
    \/ StartMonitoring
    \/ \E l \in Levels : LevelUpdate(l)
    \/ StopMonitoring
    \/ EffectRerun
    \/ MeterFrame

DisplaySpec == DisplayInitMounted /\ [][DisplayNext]_vars

\* -------------------------------------- MicrophonePermission under the hook
\* what is not MicrophonePermission's among the components' state
meterVars == << sample, thresholds, level, label, meterVariant, animatedLevel,
               startLevel, ticks, baseLevel, animFrame, updates >>

\* which of its four returns MicrophonePermission renders
PanelView ==
    IF permissionState = "granted" /\ isListening /\ checkingMicrophone
    THEN "trouble"
    ELSE IF permissionState = "denied" /\ showHelp
    THEN "help"
    ELSE IF permissionState = "granted" /\ isListening
    THEN "listening"
    ELSE "start"

\* the rendered buttons whose onClick is handleStop / handleStart
StopOffered == PanelView \in {"trouble", "listening"}

StartOffered == PanelView \in {"trouble", "help", "start"}

\* the effect has run for the props of the last render
EffectSettled == effectDeps = << permissionState, isListening >>

\* the effect after a render that changed permissionState or isListening:
\* the cleanup of its last run clears the timeout, then its body runs
PanelEffect ==
    /\ ~EffectSettled
    /\ effectDeps' = << permissionState, isListening >>
    /\ showHelp' = IF permissionState = "denied" THEN TRUE ELSE showHelp
    /\ helpTimer' = (permissionState = "granted" /\ isListening)
    /\ UNCHANGED checkingMicrophone
    /\ UNCHANGED << hookVars, meterVars, timerVars >>

\* the 3 s timeout fires
HelpTimeout ==
    /\ EffectSettled
    /\ helpTimer
    /\ helpTimer' = FALSE
    /\ checkingMicrophone' = TRUE
    /\ UNCHANGED << showHelp, effectDeps >>
    /\ UNCHANGED << hookVars, meterVars, timerVars >>

\* Start Listening / Try Again / Restart
handleStart ==
    /\ EffectSettled
    /\ StartOffered
    /\ checkingMicrophone' = FALSE
    /\ StartCall
    /\ UNCHANGED << showHelp, helpTimer, effectDeps >>
    /\ UNCHANGED << meterVars, timerVars >>

\* Stop / Stop Listening
handleStop ==
    /\ EffectSettled
    /\ StopOffered
    /\ checkingMicrophone' = FALSE
    /\ StopCall
    /\ UNCHANGED << showHelp, helpTimer, effectDeps >>
    /\ UNCHANGED << meterVars, timerVars >>

\* Hide Instructions
HideInstructions ==
    /\ EffectSettled
    /\ PanelView = "help"
    /\ showHelp' = FALSE
    /\ UNCHANGED << checkingMicrophone, helpTimer, effectDeps >>
    /\ UNCHANGED << hookVars, meterVars, timerVars >>

PanelNext ==
    \/ PanelEffect
    \/ HelpTimeout
    \/ handleStart
    \/ handleStop
    \/ HideInstructions
    \/ \E s \in PermissionStates : EffectSettled /\ PermissionQueryDone(s)
    \/ \E s \in PermissionStates : EffectSettled /\ PermissionChange(s)
    \/ EffectSettled /\ ContextSettle
    \/ \E c \in calls : EffectSettled /\ Grant(c)
    \/ \E c \in calls : EffectSettled /\ Reject(c)
    \/ \E c \in calls : EffectSettled /\ GrantNoTracks(c)
    \/ \E f \in frames : EffectSettled /\ Tick(f)

PanelSpec == Init /\ [][PanelNext]_vars

\* -------------------------------------------------------------------- Timer
\* texts the minutes input can hold, as sequences of characters
InputTexts ==
    { << "5" >>, << "1" >>, << "0" >>, << "-", "1" >>, << "6", "1" >>,
      << "2", ".", "5" >>, << "a", "b", "c" >>, << >> }

DigitChars == << "0", "1", "2", "3", "4", "5", "6", "7", "8", "9" >>

IsDigit(ch) == \E d \in 1..10 : DigitChars[d] = ch

DigitValue(ch) == (CHOOSE d \in 1..10 : DigitChars[d] = ch) - 1

\* the characters of text from position i on, without leading spaces
RECURSIVE SkipSpaces(_, _)
SkipSpaces(text, i) ==
    IF i <= Len(text) /\ text[i] = " " THEN SkipSpaces(text, i + 1) ELSE i

\* the value of the decimal digits of text from position i up to the first
\* character that is not a digit, continuing from acc
RECURSIVE DigitsFrom(_, _, _)
DigitsFrom(text, i, acc) ==
    IF i <= Len(text) /\ IsDigit(text[i])
    THEN DigitsFrom(text, i + 1, 10 * acc + DigitValue(text[i]))
    ELSE acc

\* parseInt(text, 10): nan when no digit follows the optional sign
parseInt(text) ==
    LET b == SkipSpaces(text, 1)
        signed == b <= Len(text) /\ text[b] \in {"-", "+"}
        d == IF signed THEN b + 1 ELSE b
        magnitude == DigitsFrom(text, d, 0)
    IN  IF d > Len(text) \/ ~IsDigit(text[d])
        THEN [nan |-> TRUE, value |-> 0]
        ELSE [nan |-> FALSE,
              value |-> IF signed /\ text[b] = "-" THEN 0 - magnitude ELSE magnitude]

\* parseInt(inputMinutes, 10) || 5: NaN and 0 are falsy
ParsedMinutes(text) ==
    LET n == parseInt(text)
    IN  IF n.nan \/ n.value = 0 THEN 5 ELSE n.value

\* variant: the cleanup of the interval effect clears nothing
TimerEffect_noCleanup(run) == interval \/ run

\* the interval effect after a render: its cleanup clears the interval of the
\* last run, its body arms a new one if isRunning
TimerEffect(run) == run

\* variant: a minute rolls over to second 60
Countdown_minuteOf61(m, s) ==
    IF s > 0 THEN [minutes |-> m, seconds |-> s - 1, done |-> FALSE]
    ELSE IF m > 0 THEN [minutes |-> m - 1, seconds |-> 60, done |-> FALSE]
    ELSE [minutes |-> m, seconds |-> s, done |-> TRUE]

\* the body of the interval callback on the time its closure holds
Countdown(m, s) ==
    IF s > 0 THEN [minutes |-> m, seconds |-> s - 1, done |-> FALSE]
    ELSE IF m > 0 THEN [minutes |-> m - 1, seconds |-> 59, done |-> FALSE]
    ELSE [minutes |-> m, seconds |-> s, done |-> TRUE]

\* what every step of the Timer leaves alone
TimerFrame == UNCHANGED << hookVars, meterVars, panelVars >>

\* the interval fires
TimerTick ==
    /\ interval
    /\ LET r == Countdown(minutes, seconds)
       IN  /\ minutes' = r.minutes
           /\ seconds' = r.seconds
           /\ isRunning' = IF r.done THEN FALSE ELSE isRunning
           /\ runToasts' = IF r.done THEN runToasts + 1 ELSE runToasts
    /\ interval' = TimerEffect(isRunning')
    /\ runLeft' = runLeft - 1
    /\ UNCHANGED inputMinutes
    /\ TimerFrame

startTimer ==
    /\ IF isRunning
       THEN UNCHANGED << isRunning, interval, runLeft, runToasts >>
       ELSE /\ isRunning' = TRUE
            /\ interval' = TimerEffect(TRUE)
            /\ runLeft' = 60 * minutes + seconds
            /\ runToasts' = 0
    /\ UNCHANGED << minutes, seconds, inputMinutes >>
    /\ TimerFrame

pauseTimer ==
    /\ isRunning' = FALSE
    /\ interval' = IF isRunning THEN TimerEffect(FALSE) ELSE interval
    /\ runLeft' = 60 * minutes + seconds
    /\ runToasts' = 0
    /\ UNCHANGED << minutes, seconds, inputMinutes >>
    /\ TimerFrame

resetTimer ==
    /\ isRunning' = FALSE
    /\ minutes' = ParsedMinutes(inputMinutes)
    /\ seconds' = 0
    /\ interval' = IF << isRunning', minutes', seconds' >> # << isRunning, minutes, seconds >>
                   THEN TimerEffect(FALSE) ELSE interval
    /\ runLeft' = 60 * minutes'
    /\ runToasts' = 0
    /\ UNCHANGED inputMinutes
    /\ TimerFrame

handleTimeChange(value) ==
    /\ inputMinutes' = value
    /\ UNCHANGED << minutes, seconds, isRunning, interval, runLeft, runToasts >>
    /\ TimerFrame

handleTimeSet ==
    /\ minutes' = ParsedMinutes(inputMinutes)
    /\ seconds' = 0
    /\ interval' = IF << minutes', seconds' >> # << minutes, seconds >>
                   THEN TimerEffect(isRunning) ELSE interval
    /\ runLeft' = 60 * minutes'
    /\ runToasts' = 0
    /\ UNCHANGED << isRunning, inputMinutes >>
    /\ TimerFrame

TimerNext ==
    \/ TimerTick
    \/ startTimer
    \/ pauseTimer
    \/ resetTimer
    \/ \E value \in InputTexts : handleTimeChange(value)
    \/ handleTimeSet

\* the page with its Timer mounted and the monitor never started
TimerMounted ==
    /\ SessionFixed
    /\ sample = SilentSample
    /\ thresholds = DEFAULT_THRESHOLDS
    /\ level = 0
    /\ label = ""
    /\ meterVariant = "A"
    /\ animatedLevel = 0
    /\ startLevel = 0
    /\ ticks = 0
    /\ baseLevel = 0
    /\ animFrame = NoFrame
    /\ updates = 0
    /\ WidgetsIdle

TimerSpec == TimerMounted /\ [][TimerNext]_vars

\* ===================================================================== claims
\* what stopListening leaves behind when it ran on the state before the step
StopPost ==
    /\ streamRef \notin liveStreams'
    /\ microphoneRef \notin connected'
    /\ animationFrameRef \notin FrameIdsOf(frames')
    /\ animationFrameRef' = 0
    /\ streamRef' = 0
    /\ analyserRef' = 0
    /\ microphoneRef' = 0
    /\ audioLevel' = 0
    /\ isListening' = FALSE

\* the Denied state: permission denied and not listening
Denied == permissionState = "denied" /\ ~isListening

\* C1: while the session is Active every executed frame callback schedules
\* the next one (the loop runs on every tick until stopListening).
C1_LoopContinues ==
    [][\A f \in frames :
          (Tick(f) /\ Active /\ analyserRef # 0) => (frames' \ frames # {})]_vars

\* C2: startListening() while the session is Active is a no-op: it makes no
\* further acquisition.
C2_StartWhileActiveNoOp ==
    [][(StartListening /\ Active) => (calls' = calls /\ ctxOps' = ctxOps)]_vars

\* C3: no frame callback that was scheduled before a stopListening() call
\* executes after that call has returned.
C3_NoCallbackAfterStop ==
    [][\A f \in frames : Tick(f) => ~f.preStop]_vars

\* C4: stopListening() in the Active state stops every track of the held
\* stream, disconnects the source node, cancels the pending frame callback
\* and leaves animationFrameRef, streamRef, analyserRef and microphoneRef
\* null, audioLevel 0 and isListening false, in one step.
C4_StopLeavesIdle ==
    [][(StopListening /\ Active) => StopPost]_vars

\* a session was granted once and then stopped by stopListening()
C4_Witness ==
    /\ mounted /\ permQuery = "none" /\ permissionState = "granted"
    /\ started = 1 /\ calls = {}
    /\ ~isListening /\ streamRef = 0 /\ analyserRef = 0 /\ microphoneRef = 0
    /\ animationFrameRef = 0 /\ audioLevel = 0
    /\ liveStreams = {} /\ connected = {} /\ frames = {}

\* C5: after the consumer has unmounted no acquired stream keeps live tracks
\* and no frame callback stays scheduled.
C5_UnmountReleasesAll ==
    ~mounted => (liveStreams = {} /\ frames = {})

\* C6: unmounting while the session is Active has the effect of
\* stopListening(): tracks stopped, frame callback cancelled, audioLevel 0,
\* isListening false.
C6_UnmountStops ==
    [][(Unmount /\ Active) => (StopPost /\ cleanupRan')]_vars

\* the cleanup of an unmount stopped a session
C6_Witness ==
    /\ ~mounted /\ cleanupRan
    /\ ~isListening /\ streamRef = 0 /\ animationFrameRef = 0 /\ audioLevel = 0
    /\ liveStreams = {} /\ frames = {}

\* C7: at most one frame callback is pending in every reachable state.
C7_OneFrameLoop ==
    Cardinality(frames) <= 1

\* C8: when the getUserMedia request of a startListening() issued from a
\* non-listening state is rejected, permissionState becomes 'denied',
\* isListening is false, no frame callback is scheduled, no stream is held
\* and audioLevel is unchanged.
C8_RejectLeavesDenied ==
    [][\A c \in calls :
          (Reject(c) /\ ~c.cap) =>
             /\ permissionState' = "denied"
             /\ isListening' = FALSE
             /\ frames' \subseteq frames
             /\ streamRef' = 0
             /\ audioLevel' = audioLevel]_vars

C10_GrantActivates ==
    [][\A c \in calls :
          (Grant(c) /\ ~c.cap) =>
             /\ streamRef' = c.id
             /\ c.id \in liveStreams'
             /\ permissionState' = "granted"
             /\ isListening' = TRUE
             /\ frames \subseteq frames'
             /\ Cardinality(frames' \ frames) = 1
             /\ animationFrameRef' \in FrameIdsOf(frames' \ frames)]_vars

\* the first request was granted and its frame callback has not run yet
C10_Witness ==
    /\ started = 1 /\ calls = {}
    /\ Active /\ permissionState = "granted" /\ liveStreams = {1}
    /\ Cardinality(frames) = 1
    /\ animationFrameRef \in FrameIdsOf(frames)
    /\ \A f \in frames : ~f.cap

\* C11: stopListening() while no session is Active stops no track and leaves
\* isListening false, audioLevel 0 and permissionState unchanged; after any
\* stopListening() a second one right away changes nothing.
C11_StopIdleNoOp ==
    /\ [][(StopListening /\ ~Active) =>
            /\ liveStreams' = liveStreams
            /\ connected' = connected
            /\ FrameIdsOf(frames') = FrameIdsOf(frames)
            /\ ~isListening /\ ~isListening'
            /\ audioLevel = 0 /\ audioLevel' = 0
            /\ permissionState' = permissionState]_vars
    /\ [][StopListening =>
            /\ ~Active'
            /\ StoppedTracks' = liveStreams'
            /\ Disconnected' = connected'
            /\ CancelledFrames' = frames'
            /\ Suspended' = ctxOps'
            /\ animationFrameRef' = 0 /\ streamRef' = 0
            /\ analyserRef' = 0 /\ microphoneRef' = 0
            /\ ~isListening' /\ audioLevel' = 0]_vars

\* the only start failed, so no session was ever Active, and stopListening()
\* was called (only it suspends the context)
C11_Witness ==
    /\ mounted /\ permQuery = "none" /\ started = 1 /\ calls = {}
    /\ permissionState = "denied" /\ ctxState = "suspended"
    /\ ~isListening /\ audioLevel = 0 /\ liveStreams = {}

\* C12: an exception thrown while a frame is read or estimated leaves
\* audioLevel as it was and the callback schedules the next frame exactly as
\* after a successful frame.
C12_FrameErrorAbsorbed ==
    [][\A f \in frames : \A lvl \in Levels :
          (Frame(f, lvl, FALSE) /\ analyserRef # 0) =>
             /\ audioLevel' = audioLevel
             /\ frames' = Reschedule(f, frames \ {f})]_vars

\* C13: an acquisition is issued only by a startListening() call: every
\* pending request and every acquired stream belongs to a counted call, and
\* without a call there is none.
C13_AcquireOnlyInStart ==
    /\ [](/\ \A c \in calls : c.id \in 1..started
          /\ liveStreams \subseteq 1..started
          /\ (started = 0 => calls = {} /\ liveStreams = {} /\ ctxState = "none"))
    /\ [][{c.id : c \in calls'} \subseteq {c.id : c \in calls}
            \/ started' = started + 1]_vars

\* the hook was mounted, the permission query answered 'granted', the
\* consumer unmounted, and startListening() was never called
C13_Witness ==
    /\ ~mounted /\ permQuery = "registered" /\ permissionState = "granted"
    /\ started = 0 /\ calls = {} /\ liveStreams = {}

\* C14: the level the hook exposes is within [0, 100] whatever bytes the
\* analyser's buffers hold, in every variant of the estimator (the one that
\* boosts levels below 5 included)
C14_LevelInRange == audioLevel >= 0 /\ audioLevel <= 100 * Unit

\* a quiet frame of the boosting variant: the level was raised by the boost
C14_Witness ==
    /\ sample.variant = "p003b"
    /\ audioLevel = Estimate(sample)
    /\ audioLevel > Combined(sample, [Params_p003b EXCEPT !.boost = FALSE])
    /\ audioLevel < 8 * Unit

\* C15: the category NoiseMeter shows follows the classifier table: quiet for
\* 5 <= level < moderate, silent for level < 5, excessive for level >=
\* excessive, loud for loud <= level < excessive, moderate for moderate <=
\* level < loud
C15_ClassifierTable ==
    label # "" =>
        /\ (level >= 5 * Unit /\ level < thresholds.moderate * Unit
                => label = "Quiet")
        /\ (level < 5 * Unit => label = "Silent")
        /\ (level >= thresholds.excessive * Unit => label = "Too Loud!")
        /\ (level >= thresholds.loud * Unit /\ level < thresholds.excessive * Unit
                => label = "Very Noisy")
        /\ (level >= thresholds.moderate * Unit /\ level < thresholds.loud * Unit
                => label = "Moderate")

\* C15 as the code has it: quiet for 5 < level < moderate, silent for
\* level <= 5 below moderate; the three upper rows as stated
C15_ClassifierTableOpenFloor ==
    label # "" =>
        /\ (level > 5 * Unit /\ level < thresholds.moderate * Unit
                => label = "Quiet")
        /\ (level <= 5 * Unit /\ level < thresholds.moderate * Unit
                => label = "Silent")
        /\ (level >= thresholds.excessive * Unit => label = "Too Loud!")
        /\ (level >= thresholds.loud * Unit /\ level < thresholds.excessive * Unit
                => label = "Very Noisy")
        /\ (level >= thresholds.moderate * Unit /\ level < thresholds.loud * Unit
                => label = "Moderate")

\* level exactly 5 under a moderate threshold above 5 was classified
C15_Witness ==
    /\ level = 5 * Unit
    /\ thresholds.moderate > 5
    /\ label = "Silent"

\* C16: with thresholds {30, 60, 85}: 0 and 5 are silent, levels above 5 and
\* below 30 quiet, 30 moderate, levels from 60 and below 85 loud, 85
\* excessive; with any thresholds a level equal to a threshold is in the
\* higher category
C16_BoundaryExamples ==
    label # "" =>
        /\ thresholds = [moderate |-> 30, loud |-> 60, excessive |-> 85] =>
              /\ (level = 0 => label = "Silent")
              /\ (level = 5 * Unit => label = "Silent")
              /\ (level > 5 * Unit /\ level < 30 * Unit => label = "Quiet")
              /\ (level = 30 * Unit => label = "Moderate")
              /\ (level >= 60 * Unit /\ level < 85 * Unit => label = "Very Noisy")
              /\ (level = 85 * Unit => label = "Too Loud!")
        /\ (level = thresholds.moderate * Unit => label = "Moderate")
        /\ (level = thresholds.loud * Unit => label = "Very Noisy")
        /\ (level = thresholds.excessive * Unit => label = "Too Loud!")

\* level 84.9 under {30, 60, 85} was classified
C16_Witness ==
    /\ thresholds = [moderate |-> 30, loud |-> 60, excessive |-> 85]
    /\ level = 85 * Unit - 100
    /\ label = "Very Noisy"

\* the ranges of the classifier table as stated (floor of 5 in quiet)
StatedRange(cat, lvl, th) ==
    CASE cat = "Too Loud!" -> lvl >= th.excessive * Unit
      [] cat = "Very Noisy" -> lvl >= th.loud * Unit /\ lvl < th.excessive * Unit
      [] cat = "Moderate" -> lvl >= th.moderate * Unit /\ lvl < th.loud * Unit
      [] cat = "Quiet" -> lvl >= 5 * Unit /\ lvl < th.moderate * Unit
      [] cat = "Silent" -> lvl < 5 * Unit

\* the ranges with the floor in silent and the two lower ranges below moderate
OpenFloorRange(cat, lvl, th) ==
    CASE cat = "Too Loud!" -> lvl >= th.excessive * Unit
      [] cat = "Very Noisy" -> lvl >= th.loud * Unit /\ lvl < th.excessive * Unit
      [] cat = "Moderate" -> lvl >= th.moderate * Unit /\ lvl < th.loud * Unit
      [] cat = "Quiet" -> lvl > 5 * Unit /\ lvl < th.moderate * Unit
      [] cat = "Silent" -> lvl <= 5 * Unit /\ lvl < th.moderate * Unit

\* C17: for every valid threshold set and level the classifier returns one
\* of the five categories, the levels of each category are exactly its
\* stated range, and the five ranges partition [0, 100]
C17_StatedRangesPartition ==
    label # "" =>
        /\ label \in Categories
        /\ \A cat \in Categories :
              (label = cat) <=> StatedRange(cat, level, thresholds)
        /\ Cardinality({cat \in Categories :
                           StatedRange(cat, level, thresholds)}) = 1

\* C17 with the ranges the code realises: silent is level <= 5 below
\* moderate, quiet is 5 < level < moderate
C17_OpenFloorRangesPartition ==
    label # "" =>
        /\ label \in Categories
        /\ \A cat \in Categories :
              (label = cat) <=> OpenFloorRange(cat, level, thresholds)
        /\ Cardinality({cat \in Categories :
                           OpenFloorRange(cat, level, thresholds)}) = 1

\* a level below 5 was classified under a moderate threshold below it
C17_Witness ==
    /\ thresholds.moderate = 3
    /\ level = 4 * Unit
    /\ label = "Moderate"

\* C18: whatever sliders are moved and resets made, the threshold set
\* NoiseMeter gets satisfies 0 <= moderate < loud < excessive <= 100
C18_ThresholdsOrdered ==
    /\ 0 <= thresholds.moderate
    /\ thresholds.moderate < thresholds.loud
    /\ thresholds.loud < thresholds.excessive
    /\ thresholds.excessive <= 100

\* C19: with the target fixed, every smoothing step of every NoiseMeter
\* variant yields a value between the previous animatedLevel and the target,
\* both included
C19_StepStaysBetween ==
    [][AnimationStep =>
         \/ animatedLevel <= animatedLevel' /\ animatedLevel' <= level
         \/ level <= animatedLevel' /\ animatedLevel' <= animatedLevel]_vars

\* C20: from animatedLevel 0 with the target held at 100 the repeated step
\* never exceeds 100, never moves back, and is at exactly 100 once the
\* explored number of steps was applied
C20_ConvergesFromZero ==
    /\ []((startLevel = 0 /\ level = 100 * Unit) =>
            /\ animatedLevel <= 100 * Unit
            /\ (ticks = MaxTicks => animatedLevel = 100 * Unit))
    /\ [][(startLevel = 0 /\ level = 100 * Unit) =>
            animatedLevel' >= animatedLevel]_vars

\* C21: a smoothing step applied within 0.5 of the target sets animatedLevel
\* exactly to the target, and a step applied at the target leaves it there
C21_SnapAndIdempotent ==
    /\ [][(AnimationStep /\ Abs(animatedLevel - level) < Unit \div 2) =>
            animatedLevel' = level]_vars
    /\ [][(AnimationStep /\ animatedLevel = level) =>
            animatedLevel' = animatedLevel]_vars

\* the level was approached from elsewhere, snapped, and stepped again up to
\* the last explored step
C21_Witness ==
    /\ startLevel # level
    /\ animatedLevel = level
    /\ ticks = MaxTicks

\* C22: a jump beyond the jump threshold is within 0.5 of the target strictly
\* earlier than the same jump stepped at the base rate only: when the
\* base-rate value first comes within 0.5, the meter has already snapped
C22_JumpConvergesFaster ==
    (/\ Abs(startLevel - level) > JumpThreshold(meterVariant)
     /\ baseLevel # level
     /\ Abs(baseLevel - level) < Unit \div 2)
        => animatedLevel = level

\* C23: the level the meter displays becomes 0 at the stop, and is 0 whenever
\* the session is not listening
C23_StopResetsDisplay ==
    /\ [][StopMonitoring => animatedLevel' = 0]_vars
    /\ [](~isListening => animatedLevel = 0)

\* a frame of silence: every time-domain byte 128, every frequency byte 0
SilentFrame(smp) ==
    /\ \A i \in 1..Len(smp.time) : smp.time[i] = 128
    /\ \A i \in 1..Len(smp.freq) : smp.freq[i] = 0

\* a frame at full scale: every time-domain byte 0 or 255, every frequency
\* byte 255
FullScaleFrame(smp) ==
    /\ \A i \in 1..Len(smp.time) : smp.time[i] \in {0, 255}
    /\ \A i \in 1..Len(smp.freq) : smp.freq[i] = 255

\* C24: the estimator maps a frame of silence to level 0 and a frame at full
\* scale to level 100
C24_EstimatorExtremes ==
    [][EstimateFrame =>
         /\ (SilentFrame(sample) => audioLevel' = 0)
         /\ (FullScaleFrame(sample) => audioLevel' = 100 * Unit)]_vars

\* a full-scale frame with both extremes in the time domain was estimated
C24_Witness ==
    /\ FullScaleFrame(sample)
    /\ sample.time[1] = 0
    /\ sample.time[TimeLen] = 255
    /\ sample.variant = "p002"
    /\ audioLevel = 100 * Unit

\* C25: while the getUserMedia request of a startListening() issued from
\* Idle is pending, no frame callback is scheduled, isListening is false and
\* audioLevel is still 0
C25_PendingIsQuiet ==
    \A c \in calls :
        (c.idle /\ c.phase = "gum") =>
            /\ frames = {}
            /\ ~isListening
            /\ audioLevel = 0

\* C26: a startListening() that fails without a denial (no
\* navigator.mediaDevices, no device, a stream without audio tracks) ends
\* with permissionState "denied", isListening false and no stream held, and
\* a later startListening() is accepted
C26_FailureIsDenial ==
    [][((StartListening /\ ~hasMediaDevices)
          \/ \E c \in calls : GrantNoTracks(c)) =>
         /\ permissionState' = "denied"
         /\ ~isListening'
         /\ streamRef' = 0
         /\ CanStart']_vars

\* C27: a getUserMedia request that was pending when stopListening() ran and
\* is granted afterwards, with no startListening() issued after it, leaves
\* isListening false and no stream with live tracks
C27_StopCancelsPending ==
    [][\A c \in calls :
         (Grant(c) /\ c.stopped /\ c.id = started) =>
            /\ ~isListening'
            /\ liveStreams' = {}]_vars

\* C28: whenever the session is Active with a live stream and an analyser,
\* the audio context is not suspended unless a resume() is outstanding
C28_ActiveContextRuns ==
    (Active /\ streamRef \in liveStreams /\ analyserRef # 0) =>
        \/ ctxState = "running"
        \/ \E i \in 1..Len(ctxOps) : ctxOps[i].op = "resume"

\* C29: the audio context, once created, is never replaced (stop suspends
\* it, a later start resumes it), while every granted startListening()
\* installs a stream, a source node and an analyser that were not there before
C29_OneContextFreshGraph ==
    /\ [][ctxState # "none" => ctxState' # "none"]_vars
    /\ [][\A c \in calls :
            Grant(c) =>
               /\ ctxState' = ctxState
               /\ streamRef' # streamRef /\ streamRef' \notin liveStreams
               /\ microphoneRef' # microphoneRef /\ microphoneRef' \notin connected
               /\ analyserRef' # analyserRef
               /\ analyserRef' = streamRef']_vars

\* the second startListening() was granted on the context the first created
C29_Witness ==
    /\ started = 2
    /\ isListening
    /\ streamRef = 2
    /\ analyserRef = 2
    /\ liveStreams = {2}
    /\ connected = {2}
    /\ ctxState = "running"

\* C30: isListening is true exactly when a stream is held and an analyser is
\* installed
C30_ListeningIffGraph ==
    isListening <=> (streamRef # 0 /\ analyserRef # 0)

\* listening on the first call's stream after a stop, while the second
\* startListening(), issued before that stop, is still waiting
C30_Witness ==
    /\ isListening
    /\ streamRef = 1
    /\ analyserRef = 1
    /\ \E c \in calls : c.stopped /\ c.id = 2

\* C31: whenever the hook is listening, permissionState is 'granted'
C31_ListeningImpliesGranted ==
    isListening => permissionState = "granted"

\* C32: whenever the hook is listening, MicrophonePermission renders a
\* button that calls onStopListening
C32_StopAlwaysOffered ==
    isListening => StopOffered

\* the troubleshooting panel is on screen
PanelShown == PanelView = "trouble"

\* C33: the troubleshooting panel is on screen only while no audio has been
\* detected (the level is still 0), and Stop and Restart take it away
C33_PanelOnlyWhenSilent ==
    /\ [](PanelShown => audioLevel = 0)
    /\ [][(handleStop \/ handleStart) => ~PanelShown']_vars

\* C34: in the quiet-boost variant, a frame whose combined volume is at least
\* that of the frame before it sets a level at least as high
C34_BoostMonotone ==
    [][(/\ audioLevel = Estimate(sample)
        /\ CombinedVolume(sample, Params_p003b)
              <= CombinedVolume(sample', Params_p003b))
       => audioLevel <= audioLevel']_vars

\* C35: with no user action a running Timer loses one second per tick, is at
\* 00:00 after exactly as many ticks as it had seconds left, and the tick
\* after that stops it with one 'Timer Complete!' toast and leaves 00:00;
\* no toast comes while time remains
C35_CountsDownToOneToast ==
    /\ [][TimerTick =>
            /\ (seconds > 0 =>
                   minutes' = minutes /\ seconds' = seconds - 1 /\ isRunning')
            /\ (seconds = 0 /\ minutes > 0 =>
                   minutes' = minutes - 1 /\ seconds' = 59 /\ isRunning')
            /\ (seconds = 0 /\ minutes = 0 =>
                   /\ minutes' = 0 /\ seconds' = 0
                   /\ ~isRunning' /\ ~interval'
                   /\ runToasts' = runToasts + 1)
            /\ (60 * minutes + seconds > 0 => runToasts' = runToasts)]_vars
    /\ [](runLeft >= 0 => 60 * minutes + seconds = runLeft)
    /\ [](seconds \in 0..59)
    /\ [](runToasts <= 1)

\* the timer ran from 05:00 down to 00:00 and the tick after that ended it
C35_Witness ==
    /\ minutes = 0
    /\ seconds = 0
    /\ ~isRunning
    /\ runToasts = 1
    /\ runLeft = 0 - 1
    /\ inputMinutes = << "5" >>

\* C36: no interval is armed while the Timer is not running, so no tick
\* changes the time; Pause keeps the remaining time, Start keeps it and
\* resumes, and Start while running changes nothing
C36_PausedTimeFrozen ==
    /\ [](~isRunning => ~interval)
    /\ [][(TimerTick /\ ~isRunning) =>
            (minutes' = minutes /\ seconds' = seconds)]_vars
    /\ [][pauseTimer =>
            (minutes' = minutes /\ seconds' = seconds /\ ~isRunning')]_vars
    /\ [][startTimer =>
            /\ minutes' = minutes /\ seconds' = seconds /\ isRunning'
            /\ (isRunning => UNCHANGED timerVars)]_vars

\* paused at 04:58 after two ticks, nothing typed
C36_Witness ==
    /\ ~isRunning
    /\ ~interval
    /\ minutes = 4
    /\ seconds = 58
    /\ runLeft = 298
    /\ inputMinutes = << "5" >>

\* C37: minutes is never negative and seconds stays within 0..59
C37_TimeInRange ==
    minutes >= 0 /\ seconds >= 0 /\ seconds <= 59

====
